---- MODULE Spec2Model ----
(***************************************************************************)
(* Credit-card statement parser (src/app.py): the pipeline of              *)
(* process_statement (extract, model call + JSON parse, validate, display) *)
(* and the normalisation rules of DataValidator.                           *)
(*                                                                         *)
(* Text is a sequence of one-character strings.  A JSON value is a tagged  *)
(* record; a Python dict is a function from its keys to values.  A float   *)
(* is the exact decimal m / 10^e, kept normalised.                         *)
(***************************************************************************)
EXTENDS Integers, Sequences, FiniteSets, TLC

VARIABLES pc, pdf_ok, response_text, parsed_data, result,
          model_calls, errors_shown, stages, displayed

vars == <<pc, pdf_ok, response_text, parsed_data, result,
          model_calls, errors_shown, stages, displayed>>

----------------------------------------------------------------------------
(* Bounds of the checked input space.                                      *)

MaxCardLen == 5
MaxAmtLen == 3
MaxTxns == 2
MaxDocLen == 4

----------------------------------------------------------------------------
(* Characters and text.                                                    *)

DigitChars == <<"0", "1", "2", "3", "4", "5", "6", "7", "8", "9">>

IsDigit(c) == \E i \in DOMAIN DigitChars : DigitChars[i] = c

DigitVal(c) == (CHOOSE i \in DOMAIN DigitChars : DigitChars[i] = c) - 1

IsSpace(c) == c \in {" ", "\t", "\n"}

UpperChars ==
    <<"A", "B", "C", "D", "E", "F", "G", "H", "I", "J", "K", "L", "M",
     "N", "O", "P", "Q", "R", "S", "T", "U", "V", "W", "X", "Y", "Z">>
LowerChars ==
    <<"a", "b", "c", "d", "e", "f", "g", "h", "i", "j", "k", "l", "m",
     "n", "o", "p", "q", "r", "s", "t", "u", "v", "w", "x", "y", "z">>

Lower(c) ==
    IF \E i \in DOMAIN UpperChars : UpperChars[i] = c
    THEN LowerChars[CHOOSE i \in DOMAIN UpperChars : UpperChars[i] = c]
    ELSE c

AllDigits(s) == \A i \in DOMAIN s : IsDigit(s[i])

RECURSIVE ToNat(_)
ToNat(s) ==
    IF s = <<>> THEN 0
    ELSE 10 * ToNat(SubSeq(s, 1, Len(s) - 1)) + DigitVal(s[Len(s)])

RECURSIVE NatToStr(_)
NatToStr(n) ==
    IF n < 10 THEN <<DigitChars[n + 1]>>
    ELSE NatToStr(n \div 10) \o <<DigitChars[(n % 10) + 1]>>

IntToStr(n) == IF n < 0 THEN <<"-">> \o NatToStr(-n) ELSE NatToStr(n)

RECURSIVE LStrip(_)
LStrip(s) ==
    IF s # <<>> /\ IsSpace(Head(s)) THEN LStrip(Tail(s)) ELSE s

RECURSIVE RStrip(_)
RStrip(s) ==
    IF s # <<>> /\ IsSpace(s[Len(s)])
    THEN RStrip(SubSeq(s, 1, Len(s) - 1))
    ELSE s

\* str.strip()
Strip(s) == RStrip(LStrip(s))

\* pat occurs in s at position i
MatchAt(s, i, pat) ==
    /\ i + Len(pat) - 1 <= Len(s)
    /\ \A k \in 1..Len(pat) : s[i + k - 1] = pat[k]

\* Python's "pat in s"
Contains(s, pat) == \E i \in 1..(Len(s) + 1) : MatchAt(s, i, pat)

\* first position of pat in s (pat must occur)
Find(s, pat) ==
    CHOOSE i \in 1..(Len(s) + 1) :
        /\ MatchAt(s, i, pat)
        /\ \A j \in 1..(i - 1) : ~MatchAt(s, j, pat)

\* str.split(pat): the pieces between the non-overlapping occurrences
RECURSIVE Split(_, _)
Split(s, pat) ==
    IF ~Contains(s, pat) THEN <<s>>
    ELSE LET i == Find(s, pat)
         IN  <<SubSeq(s, 1, i - 1)>>
                 \o Split(SubSeq(s, i + Len(pat), Len(s)), pat)

\* all texts over an alphabet of at most n characters
RECURSIVE Texts(_, _)
Texts(alphabet, n) ==
    IF n = 0 THEN {<<>>}
    ELSE LET shorter == Texts(alphabet, n - 1)
         IN  shorter \cup {Append(s, c) : s \in shorter, c \in alphabet}

----------------------------------------------------------------------------
(* JSON / Python values.                                                   *)

JNull == [t |-> "null"]
JInt(n) == [t |-> "int", n |-> n]
JBool(b) == [t |-> "bool", b |-> b]
JStr(s) == [t |-> "str", s |-> s]
JList(xs) == [t |-> "list", xs |-> xs]
JDict(d) == [t |-> "dict", d |-> d]

\* the float m / 10^e, normalised: no trailing decimal zero
RECURSIVE JFloat(_, _)
JFloat(m, e) ==
    IF e > 0 /\ m % 10 = 0 THEN JFloat(m \div 10, e - 1)
    ELSE [t |-> "float", m |-> m, e |-> e]

EmptyDict == [k \in {} |-> JNull]

\* dict.get(k): None when the key is absent
Get(d, k) == IF k \in DOMAIN d THEN d[k] ELSE JNull

\* d[k] = v
Put(d, k, v) == [x \in DOMAIN d \cup {k} |-> IF x = k THEN v ELSE d[x]]

\* Python truth value
Truthy(v) ==
    CASE v.t = "null" -> FALSE
      [] v.t = "int" -> v.n # 0
      [] v.t = "float" -> v.m # 0
      [] v.t = "bool" -> v.b
      [] v.t = "str" -> v.s # <<>>
      [] v.t = "list" -> v.xs # <<>>
      [] v.t = "dict" -> DOMAIN v.d # {}

\* str(v) for the scalar values
PyStr(v) ==
    CASE v.t = "str" -> v.s
      [] v.t = "int" -> IntToStr(v.n)
      [] v.t = "bool" -> IF v.b THEN <<"T", "r", "u", "e">>
                                ELSE <<"F", "a", "l", "s", "e">>
      [] v.t = "null" -> <<"N", "o", "n", "e">>

----------------------------------------------------------------------------
(* DataValidator._clean_amount                                             *)

CountChar(s, c) == Cardinality({i \in DOMAIN s : s[i] = c})

RemoveChars(s, cs) == SelectSeq(s, LAMBDA c : c \notin cs)

\* float(text) for plain decimal text: [sign] digits [. digits] or
\* [sign] . digits; JNull stands for the ValueError the caller swallows
ParseFloat(s) ==
    LET signed == s # <<>> /\ s[1] \in {"-", "+"}
        body == IF signed THEN Tail(s) ELSE s
        sgn == IF s # <<>> /\ s[1] = "-" THEN -1 ELSE 1
        dots == CountChar(body, ".")
    IN  IF dots = 0
        THEN IF body # <<>> /\ AllDigits(body)
             THEN JFloat(sgn * ToNat(body), 0)
             ELSE JNull
        ELSE IF dots = 1
        THEN LET i == Find(body, <<".">>)
                 ip == SubSeq(body, 1, i - 1)
                 fp == SubSeq(body, i + 1, Len(body))
             IN  IF AllDigits(ip) /\ AllDigits(fp) /\ Len(ip) + Len(fp) >= 1
                 THEN JFloat(sgn * ToNat(ip \o fp), Len(fp))
                 ELSE JNull
        ELSE JNull

\* the text handed to float(): "$", "," and whitespace removed, and a
\* text holding both "(" and ")" turned into "-" + text without them
CleanAmountText(s) ==
    LET cleaned == SelectSeq(Strip(s), LAMBDA c : c \notin {"$", ","} /\ ~IsSpace(c))
    IN  IF Contains(cleaned, <<"(">>) /\ Contains(cleaned, <<")">>)
        THEN <<"-">> \o RemoveChars(cleaned, {"(", ")"})
        ELSE cleaned

\* _clean_amount(amount): a float, or JNull for Python's None
CleanAmount(amount) ==
    CASE amount.t = "null" -> JNull
      [] amount.t = "int" -> JFloat(amount.n, 0)
      [] amount.t = "bool" -> JFloat(IF amount.b THEN 1 ELSE 0, 0)
      [] amount.t = "float" -> amount
      [] amount.t = "str" -> ParseFloat(CleanAmountText(amount.s))
      [] OTHER -> JNull

----------------------------------------------------------------------------
(* DataValidator._clean_date                                               *)

MonthNames ==
    <<<<"j", "a", "n", "u", "a", "r", "y">>,
      <<"f", "e", "b", "r", "u", "a", "r", "y">>,
      <<"m", "a", "r", "c", "h">>,
      <<"a", "p", "r", "i", "l">>,
      <<"m", "a", "y">>,
      <<"j", "u", "n", "e">>,
      <<"j", "u", "l", "y">>,
      <<"a", "u", "g", "u", "s", "t">>,
      <<"s", "e", "p", "t", "e", "m", "b", "e", "r">>,
      <<"o", "c", "t", "o", "b", "e", "r">>,
      <<"n", "o", "v", "e", "m", "b", "e", "r">>,
      <<"d", "e", "c", "e", "m", "b", "e", "r">>>>

MonthAbbrs ==
    <<<<"j", "a", "n">>,
      <<"f", "e", "b">>,
      <<"m", "a", "r">>,
      <<"a", "p", "r">>,
      <<"m", "a", "y">>,
      <<"j", "u", "n">>,
      <<"j", "u", "l">>,
      <<"a", "u", "g">>,
      <<"s", "e", "p">>,
      <<"o", "c", "t">>,
      <<"n", "o", "v">>,
      <<"d", "e", "c">>>>

\* the seven strptime formats, in the order of the list `formats`; a format
\* is its sequence of directives ("ws" is a run of whitespace, anything
\* else one literal character)
FmtISO == <<"Y", "-", "m", "-", "d">>
FmtUSSlash == <<"m", "/", "d", "/", "Y">>
FmtDayFirst == <<"d", "/", "m", "/", "Y">>
FmtUSDash == <<"m", "-", "d", "-", "Y">>
FmtLong == <<"B", "ws", "d", ",", "ws", "Y">>
FmtAbbr == <<"b", "ws", "d", ",", "ws", "Y">>
FmtISOSlash == <<"Y", "/", "m", "/", "d">>

\* formats with the day-first slash format tried before the US one
formatsDayFirst ==
    <<FmtISO, FmtDayFirst, FmtUSSlash, FmtUSDash, FmtLong, FmtAbbr, FmtISOSlash>>

formats ==
    <<FmtISO, FmtUSSlash, FmtDayFirst, FmtUSDash, FmtLong, FmtAbbr, FmtISOSlash>>

\* the character of s at position j ("" past the end)
At(s, j) == IF j >= 1 /\ j <= Len(s) THEN s[j] ELSE ""

NonZeroDigit(c) == IsDigit(c) /\ c # "0"

Cand(n, f, v) == [len |-> n, fld |-> f, val |-> v]

\* text at position j equals name, ignoring case (re.IGNORECASE)
NameAt(s, j, name) ==
    /\ j + Len(name) - 1 <= Len(s)
    /\ \A k \in 1..Len(name) : Lower(s[j + k - 1]) = name[k]

\* names of a table matching at j, with their month numbers
RECURSIVE NameCands(_, _, _, _)
NameCands(names, i, s, j) ==
    IF i > Len(names) THEN <<>>
    ELSE (IF NameAt(s, j, names[i]) THEN <<Cand(Len(names[i]), "m", i)>> ELSE <<>>)
             \o NameCands(names, i + 1, s, j)

\* length of the run of whitespace starting at j
RECURSIVE SpaceRun(_, _)
SpaceRun(s, j) == IF IsSpace(At(s, j)) THEN 1 + SpaceRun(s, j + 1) ELSE 0

\* \s+ is greedy: the longest run first
RECURSIVE SpaceCands(_)
SpaceCands(n) == IF n = 0 THEN <<>> ELSE <<Cand(n, "", 0)>> \o SpaceCands(n - 1)

\* the alternatives of one directive's regular expression that match at
\* position j, in the order the regular expression tries them
Candidates(dir, s, j) ==
    LET a == At(s, j)
        b == At(s, j + 1)
    IN  CASE dir = "Y" ->
               IF j + 3 <= Len(s) /\ AllDigits(SubSeq(s, j, j + 3))
               THEN <<Cand(4, "Y", ToNat(SubSeq(s, j, j + 3)))>>
               ELSE <<>>
          [] dir = "m" ->
               (IF a = "1" /\ b \in {"0", "1", "2"}
                THEN <<Cand(2, "m", 10 + DigitVal(b))>> ELSE <<>>)
               \o (IF a = "0" /\ NonZeroDigit(b)
                   THEN <<Cand(2, "m", DigitVal(b))>> ELSE <<>>)
               \o (IF NonZeroDigit(a) THEN <<Cand(1, "m", DigitVal(a))>> ELSE <<>>)
          [] dir = "d" ->
               (IF a = "3" /\ b \in {"0", "1"}
                THEN <<Cand(2, "d", 30 + DigitVal(b))>> ELSE <<>>)
               \o (IF a \in {"1", "2"} /\ IsDigit(b)
                   THEN <<Cand(2, "d", 10 * DigitVal(a) + DigitVal(b))>> ELSE <<>>)
               \o (IF a = "0" /\ NonZeroDigit(b)
                   THEN <<Cand(2, "d", DigitVal(b))>> ELSE <<>>)
               \o (IF NonZeroDigit(a) THEN <<Cand(1, "d", DigitVal(a))>> ELSE <<>>)
               \o (IF a = " " /\ NonZeroDigit(b)
                   THEN <<Cand(2, "d", DigitVal(b))>> ELSE <<>>)
          [] dir = "B" -> NameCands(MonthNames, 1, s, j)
          [] dir = "b" -> NameCands(MonthAbbrs, 1, s, j)
          [] dir = "ws" -> SpaceCands(SpaceRun(s, j))
          [] OTHER -> IF a = dir THEN <<Cand(1, "", 0)>> ELSE <<>>

NoMatch == [ok |-> FALSE, end |-> 0, Y |-> 0, m |-> 0, d |-> 0]

Bind(b, c) ==
    CASE c.fld = "Y" -> [b EXCEPT !.Y = c.val]
      [] c.fld = "m" -> [b EXCEPT !.m = c.val]
      [] c.fld = "d" -> [b EXCEPT !.d = c.val]
      [] OTHER -> b

\* re.match of the format's regular expression at position j: the first
\* way, in the expression's order of preference, to match the whole format
RECURSIVE ReMatch(_, _, _, _)
RECURSIVE TryCands(_, _, _, _, _)
ReMatch(fmt, s, j, b) ==
    IF fmt = <<>> THEN [b EXCEPT !.ok = TRUE, !.end = j]
    ELSE TryCands(Candidates(Head(fmt), s, j), Tail(fmt), s, j, b)

TryCands(cands, rest, s, j, b) ==
    IF cands = <<>> THEN NoMatch
    ELSE LET r == ReMatch(rest, s, j + Head(cands).len, Bind(b, Head(cands)))
         IN  IF r.ok THEN r ELSE TryCands(Tail(cands), rest, s, j, b)

IsLeap(y) == (y % 4 = 0 /\ y % 100 # 0) \/ y % 400 = 0

DaysIn(y, m) ==
    IF m = 2 THEN (IF IsLeap(y) THEN 29 ELSE 28)
    ELSE IF m \in {4, 6, 9, 11} THEN 30 ELSE 31

\* datetime.strptime(s, fmt): the match must use up the text and name a
\* date of the calendar; ok = FALSE stands for the ValueError
Strptime(s, fmt) ==
    LET r == ReMatch(fmt, s, 1, NoMatch)
    IN  IF r.ok /\ r.end = Len(s) + 1 /\ r.Y >= 1 /\ r.m \in 1..12
           /\ r.d >= 1 /\ r.d <= DaysIn(r.Y, r.m)
        THEN r
        ELSE NoMatch

PadLeft(s, n) == [i \in 1..(IF Len(s) < n THEN n ELSE Len(s)) |->
                     IF Len(s) < n /\ i <= n - Len(s) THEN "0"
                     ELSE s[i - (IF Len(s) < n THEN n - Len(s) ELSE 0)]]

\* StrftimeISO writing the day first: dt.strftime("%d/%m/%Y")
StrftimeDayFirst(dt) ==
    PadLeft(NatToStr(dt.d), 2) \o <<"/">> \o PadLeft(NatToStr(dt.m), 2)
        \o <<"/">> \o PadLeft(NatToStr(dt.Y), 4)

\* dt.strftime("%Y-%m-%d")
StrftimeISO(dt) ==
    PadLeft(NatToStr(dt.Y), 4) \o <<"-">> \o PadLeft(NatToStr(dt.m), 2)
        \o <<"-">> \o PadLeft(NatToStr(dt.d), 2)

\* the loop of _clean_date over formats[i..]: the first format that
\* parses wins, and the text of the value is returned when none does
RECURSIVE TryFormats(_, _, _)
TryFormats(fmts, i, date_str) ==
    IF i > Len(fmts) THEN JStr(PyStr(date_str))
    ELSE LET dt == Strptime(Strip(PyStr(date_str)), fmts[i])
         IN  IF dt.ok THEN JStr(StrftimeISO(dt))
             ELSE TryFormats(fmts, i + 1, date_str)

\* _clean_date(date_str); JNull for Python's None
CleanDate(date_str) ==
    IF ~Truthy(date_str) THEN JNull ELSE TryFormats(formats, 1, date_str)

----------------------------------------------------------------------------
(* DataValidator.validate                                                  *)

WarnCard == "Card last 4 digits format issue"
WarnIssuer == "Could not identify card issuer"
WarnBalance == "Could not find total balance"

date_fields == <<"payment_due_date", "billing_cycle_start", "billing_cycle_end">>

amount_fields ==
    <<"total_balance", "minimum_payment", "previous_balance",
      "new_charges", "credit_limit", "available_credit">>

\* re.sub(r'\D', '', str(v))
DigitsOf(v) == SelectSeq(PyStr(v), IsDigit)

\* CardStep accepting four digits or more
CardStepAtLeastFour(data, out) ==
    IF Truthy(Get(data, "card_last_4")) /\ Len(DigitsOf(data["card_last_4"])) >= 4
    THEN Put(out, "card_last_4", JStr(DigitsOf(data["card_last_4"])))
    ELSE out

\* the card_last_4 block: the digits when exactly four remain
CardStep(data, out) ==
    IF Truthy(Get(data, "card_last_4")) /\ Len(DigitsOf(data["card_last_4"])) = 4
    THEN Put(out, "card_last_4", JStr(DigitsOf(data["card_last_4"])))
    ELSE out

CardWarnings(data) ==
    IF Truthy(Get(data, "card_last_4")) /\ Len(DigitsOf(data["card_last_4"])) # 4
    THEN <<WarnCard>>
    ELSE <<>>

\* the loop over the date fields, from field i on
RECURSIVE DateStep(_, _, _)
DateStep(data, out, i) ==
    IF i > Len(date_fields) THEN out
    ELSE LET f == date_fields[i]
             cleaned_date == CleanDate(Get(data, f))
         IN  DateStep(data,
                      IF Truthy(Get(data, f)) /\ Truthy(cleaned_date)
                      THEN Put(out, f, cleaned_date) ELSE out,
                      i + 1)

\* one amount: the cleaned float, or the value as it was when there is none
AmountOrOriginal(v) ==
    IF CleanAmount(v) # JNull THEN CleanAmount(v) ELSE v

\* AmountStep leaving out a field that does not convert
RECURSIVE AmountStepDropping(_, _, _)
AmountStepDropping(data, out, i) ==
    IF i > Len(amount_fields) THEN out
    ELSE LET f == amount_fields[i]
             kept == IF f \in DOMAIN data /\ data[f] # JNull /\ CleanAmount(data[f]) = JNull
                     THEN [x \in DOMAIN out \ {f} |-> out[x]]
                     ELSE IF Get(data, f) # JNull
                     THEN Put(out, f, CleanAmount(data[f]))
                     ELSE out
         IN  AmountStepDropping(data, kept, i + 1)

\* the loop over the amount fields, from field i on
RECURSIVE AmountStep(_, _, _)
AmountStep(data, out, i) ==
    IF i > Len(amount_fields) THEN out
    ELSE LET f == amount_fields[i]
         IN  AmountStep(data,
                        IF Get(data, f) # JNull
                        THEN Put(out, f, AmountOrOriginal(data[f])) ELSE out,
                        i + 1)

\* the body of the transaction loop for a kept entry
CleanTxn(txn) ==
    IF "amount" \in DOMAIN txn.d
    THEN JDict(Put(txn.d, "amount", AmountOrOriginal(txn.d["amount"])))
    ELSE txn

\* KeepTxn without the test of the description
KeepTxnAnyDict(txn) == txn.t = "dict"

\* isinstance(txn, dict) and txn.get("description")
KeepTxn(txn) == txn.t = "dict" /\ Truthy(Get(txn.d, "description"))

RECURSIVE CleanTxns(_)
CleanTxns(xs) ==
    IF xs = <<>> THEN <<>>
    ELSE (IF KeepTxn(Head(xs)) THEN <<CleanTxn(Head(xs))>> ELSE <<>>)
             \o CleanTxns(Tail(xs))

\* what "for txn in v" iterates: the items of a list, the characters of a
\* text; the keys of a dict are texts too
Items(v) ==
    CASE v.t = "list" -> v.xs
      [] v.t = "str" -> [i \in 1..Len(v.s) |-> JStr(<<v.s[i]>>)]
      [] v.t = "dict" -> <<>>

\* a truthy transactions value that "for" cannot iterate: TypeError
TxnRaises(data) ==
    /\ Truthy(Get(data, "transactions"))
    /\ data["transactions"].t \notin {"list", "str", "dict"}

TxnStep(data, out) ==
    IF Truthy(Get(data, "transactions"))
    THEN Put(out, "transactions", JList(CleanTxns(Items(data["transactions"]))))
    ELSE out

CriticalWarnings(data) ==
    (IF ~Truthy(Get(data, "card_issuer")) THEN <<WarnIssuer>> ELSE <<>>)
        \o (IF ~Truthy(Get(data, "total_balance")) THEN <<WarnBalance>> ELSE <<>>)

Raised == [raised |-> TRUE]

\* validate(data): the result, or Raised when the call raises
Validate(data) ==
    IF TxnRaises(data) THEN Raised
    ELSE [raised |-> FALSE,
          is_valid |-> TRUE,
          errors |-> <<>>,
          warnings |-> CardWarnings(data) \o CriticalWarnings(data),
          data |-> TxnStep(data,
                       AmountStep(data,
                           DateStep(data, CardStep(data, data), 1), 1))]

----------------------------------------------------------------------------
(* The inputs of validate that are checked: raw objects as the model may   *)
(* return them, each varying one group of fields over a bounded set.       *)

Chase == JStr(<<"C", "h", "a", "s", "e">>)

\* the rest of the object: nothing, or an issuer and a balance
Bases == {EmptyDict, Put(Put(EmptyDict, "card_issuer", Chase), "total_balance", JFloat(120433, 2))}

CardAlphabet == {"4", "5", "-"}

CardValues ==
    {JStr(s) : s \in Texts(CardAlphabet, MaxCardLen)}
        \cup {JNull, JInt(0), JInt(7), JInt(4532), JInt(45321), JBool(TRUE), JBool(FALSE)}

CardInputs == {Put(b, "card_last_4", v) : b \in Bases, v \in CardValues}

DateYears == {<<"2", "0", "2", "4">>, <<"2", "0", "2", "3">>}
DateNumbers == {<<"0", "2">>, <<"2">>, <<"1", "2">>, <<"1", "3">>, <<"2", "9">>, <<"3">>, <<"3", "1">>}
DateNames == {<<"F", "e", "b", "r", "u", "a", "r", "y">>, <<"F", "e", "b">>, <<"m", "a", "r", "c", "h">>, <<"M", "A", "Y">>, <<"S", "e", "p", "t">>}
DateGaps == {<<" ">>, <<" ", " ">>, <<>>}

DateTexts ==
    {y \o <<"-">> \o a \o <<"-">> \o b : y \in DateYears, a \in DateNumbers, b \in DateNumbers}
        \cup {a \o <<"/">> \o b \o <<"/">> \o y : y \in DateYears, a \in DateNumbers, b \in DateNumbers}
        \cup {a \o <<"-">> \o b \o <<"-">> \o y : y \in DateYears, a \in DateNumbers, b \in DateNumbers}
        \cup {y \o <<"/">> \o a \o <<"/">> \o b : y \in DateYears, a \in DateNumbers, b \in DateNumbers}
        \cup {n \o g \o a \o <<",">> \o g \o y :
                 n \in DateNames, g \in DateGaps, a \in {<<"2", "9">>, <<"3">>, <<"3", "1">>}, y \in DateYears}
        \cup {<<"s", "o", "m", "e", "t", "i", "m", "e", " ", "i", "n", " ", "M", "a", "r", "c", "h">>, <<"2", "0", "2", "4", "-", "0", "1", "-", "0", "5", "x">>, <<"0", "3", "/", "1", "5", "/", "2", "0", "2", "4">>, <<>>}

DateValues ==
    {JStr(s) : s \in DateTexts}
        \cup {JStr(<<" ">> \o s \o <<"\n">>) : s \in DateTexts}
        \cup {JNull, JInt(0), JInt(5), JInt(20240315), JBool(TRUE), JBool(FALSE)}

DateInputs ==
    {Put(b, date_fields[i], v) : b \in Bases, i \in DOMAIN date_fields, v \in DateValues}

AmtAlphabet == {"1", ".", "(", ")", "$", "-", "a"}

AmountValues ==
    {JStr(s) : s \in Texts(AmtAlphabet, MaxAmtLen)}
        \cup {JStr(<<"$", "1", ",", "2", "3", "4", ".", "5", "6">>), JStr(<<"(", "2", "0", "0", ".", "0", "0", ")">>), JStr(<<"(", "$", "1", ",", "2", "3", "4", ".", "5", "6", ")">>), JStr(<<"a", "b", "c">>),
              JStr(<<" ", "1", "2", ".", "5", "0", " ">>), JStr(<<"1", "(", "2", ")", "3">>)}
        \cup {JNull, JInt(0), JInt(5), JInt(-3), JFloat(1250, 2), JFloat(0, 0),
              JBool(TRUE), JList(<<>>)}

AmountInputs ==
    {Put(Put(EmptyDict, "card_issuer", Chase), amount_fields[i], v) :
         i \in DOMAIN amount_fields, v \in AmountValues}

TxnDescriptions == {JNull, JStr(<<>>), JStr(<<"A">>), JStr(<<"B">>)}
TxnAmounts == {JStr(<<"(", "2", ")">>), JStr(<<"a", "b", "c">>), JInt(5)}

TxnDate == Put(EmptyDict, "date", JStr(<<"0", "3", "/", "1", "5", "/", "2", "0", "2", "4">>))

TxnEntries ==
    {JDict(TxnDate)}
        \cup {JDict(Put(TxnDate, "description", d)) : d \in TxnDescriptions}
        \cup {JDict(Put(TxnDate, "amount", a)) : a \in TxnAmounts}
        \cup {JDict(Put(Put(TxnDate, "description", d), "amount", a)) :
                  d \in TxnDescriptions, a \in TxnAmounts}
        \cup {JDict(Put(Put(EmptyDict, "description", JStr(<<"A">>)), "category", JStr(<<"B">>)))}
        \cup {JStr(<<"A">>), JNull}

RECURSIVE ListsOf(_, _)
ListsOf(S, n) ==
    IF n = 0 THEN {<<>>}
    ELSE LET shorter == ListsOf(S, n - 1)
         IN  shorter \cup {Append(xs, x) : xs \in shorter, x \in S}

TxnValues ==
    {JList(xs) : xs \in ListsOf(TxnEntries, MaxTxns)}
        \cup {JNull, JInt(0), JInt(5), JBool(TRUE), JFloat(15, 1), JStr(<<>>), JStr(<<"a", "b", "c">>),
              JDict(TxnDate)}

TxnInputs == {Put(EmptyDict, "transactions", v) : v \in TxnValues}

IssuerValues == {JNull, JStr(<<>>), Chase}
BalanceValues ==
    {JNull, JInt(0), JFloat(0, 0), JInt(5), JFloat(120433, 2), JStr(<<>>), JStr(<<"0">>),
     JStr(<<"a", "b", "c">>), JStr(<<"$", "1", ",", "2", "0", "4", ".", "3", "3">>)}

WithOptional(d, k, vs) == {d} \cup {Put(d, k, v) : v \in vs}

CriticalInputs ==
    UNION {WithOptional(d, "total_balance", BalanceValues) :
               d \in WithOptional(Put(EmptyDict, "card_variant", JStr(<<"A">>)),
                                  "card_issuer", IssuerValues)}

\* whole statements: issuer, suffix, balance, due date and transactions
Statement(balance, txns) ==
    Put(Put(Put(Put(Put(EmptyDict, "card_issuer", Chase), "card_last_4", JStr(<<"4", "5", "3", "2">>)),
                "total_balance", balance), "payment_due_date", JStr(<<"0", "3", "/", "1", "5", "/", "2", "0", "2", "4">>)),
        "transactions", JList(txns))

StatementEntries ==
    {JDict(TxnDate),
     JDict(Put(Put(EmptyDict, "description", JStr(<<"A">>)), "category", JStr(<<"B">>))),
     JDict(Put(Put(TxnDate, "description", JStr(<<"B">>)), "amount", JStr(<<"(", "2", ")">>))),
     JDict(Put(Put(TxnDate, "description", JStr(<<>>)), "amount", JInt(5)))}

StatementInputs ==
    {Statement(b, xs) : b \in {JStr(<<"$", "1", ",", "2", "0", "4", ".", "3", "3">>), JStr(<<"a", "b", "c">>)},
                        xs \in ListsOf(StatementEntries, MaxTxns)}

ValidateInputs ==
    CardInputs \cup DateInputs \cup AmountInputs \cup TxnInputs \cup CriticalInputs
        \cup StatementInputs

----------------------------------------------------------------------------
(* GeminiParser.parse_statement: the reply's text to the parsed object.    *)

\* the backtick character, written "^": a string of the module cannot hold it
Tick == "^"

Fence == <<Tick, Tick, Tick>>
JsonFence == Fence \o <<"j", "s", "o", "n">>

\* the "Clean response" block: the text between the first json fence (or,
\* without one, the first fence) and the next fence
StripFence(response) ==
    LET text == Strip(response)
    IN  IF Contains(text, JsonFence)
        THEN Strip(Split(Split(text, JsonFence)[2], Fence)[1])
        ELSE IF Contains(text, Fence)
        THEN Strip(Split(Split(text, Fence)[2], Fence)[1])
        ELSE text

\* the field names the replies use, as JSON texts
KnownKeys == {"card_issuer", "card_last_4", "total_balance", "transactions"}

KeyText(k) ==
    CASE k = "card_issuer" -> <<"c", "a", "r", "d", "_", "i", "s", "s", "u", "e", "r">>
      [] k = "card_last_4" -> <<"c", "a", "r", "d", "_", "l", "a", "s", "t", "_", "4">>
      [] k = "total_balance" -> <<"t", "o", "t", "a", "l", "_", "b", "a", "l", "a", "n", "c", "e">>
      [] k = "transactions" -> <<"t", "r", "a", "n", "s", "a", "c", "t", "i", "o", "n", "s">>

KeyName(text) ==
    IF \E k \in KnownKeys : KeyText(k) = text
    THEN CHOOSE k \in KnownKeys : KeyText(k) = text
    ELSE "other"

RECURSIVE SkipWs(_, _)
SkipWs(t, i) == IF IsSpace(At(t, i)) THEN SkipWs(t, i + 1) ELSE i

\* first position from i on holding one of the characters cs, 0 when none
RECURSIVE ScanTo(_, _, _)
ScanTo(t, i, cs) ==
    IF i > Len(t) THEN 0
    ELSE IF t[i] \in cs THEN i ELSE ScanTo(t, i + 1, cs)

RECURSIVE DigitRun(_, _)
DigitRun(t, i) == IF IsDigit(At(t, i)) THEN 1 + DigitRun(t, i + 1) ELSE 0

JsonError == [ok |-> FALSE, obj |-> EmptyDict, end |-> 0]

\* a JSON value at position i: a string without escapes, a number without
\* sign or fraction, or null
JsonValue(t, i) ==
    IF At(t, i) = "\""
    THEN LET q == ScanTo(t, i + 1, {"\"", "\n", "\t"})
         IN  IF q # 0 /\ t[q] = "\""
             THEN [ok |-> TRUE, obj |-> JStr(SubSeq(t, i + 1, q - 1)), end |-> q + 1]
             ELSE JsonError
    ELSE IF DigitRun(t, i) > 0
    THEN LET n == DigitRun(t, i)
         IN  IF n > 1 /\ t[i] = "0" THEN JsonError
             ELSE [ok |-> TRUE, obj |-> JInt(ToNat(SubSeq(t, i, i + n - 1))), end |-> i + n]
    ELSE IF MatchAt(t, i, <<"n", "u", "l", "l">>)
    THEN [ok |-> TRUE, obj |-> JNull, end |-> i + 4]
    ELSE JsonError

\* json.loads(t) for the documents the replies hold: an object with no
\* member or one; ok = FALSE stands for the JSONDecodeError
JsonLoads(t) ==
    LET p1 == SkipWs(t, 1)
        p2 == SkipWs(t, p1 + 1)
    IN  IF At(t, p1) # "{" THEN JsonError
        ELSE IF At(t, p2) = "}"
        THEN IF SkipWs(t, p2 + 1) = Len(t) + 1
             THEN [ok |-> TRUE, obj |-> EmptyDict, end |-> Len(t) + 1]
             ELSE JsonError
        ELSE LET k == JsonValue(t, p2)
                 p3 == SkipWs(t, k.end)
                 v == JsonValue(t, SkipWs(t, p3 + 1))
                 p5 == SkipWs(t, v.end)
             IN  IF /\ k.ok /\ k.obj.t = "str" /\ At(t, p3) = ":"
                    /\ v.ok /\ At(t, p5) = "}" /\ SkipWs(t, p5 + 1) = Len(t) + 1
                 THEN [ok |-> TRUE, obj |-> Put(EmptyDict, KeyName(k.obj.s), v.obj),
                       end |-> Len(t) + 1]
                 ELSE JsonError

----------------------------------------------------------------------------
(* The replies of the model that are checked: a small JSON document, bare  *)
(* or inside a fenced code block, and replies that are no JSON.            *)

DocAlphabet == {"4", Tick}

\* the JSON text of the object {k: v}
DocText(k, v) ==
    <<"{", "\"">> \o KeyText(k) \o <<"\"", ":">>
        \o (CASE v.t = "str" -> <<"\"">> \o v.s \o <<"\"">>
              [] v.t = "int" -> IntToStr(v.n)
              [] v.t = "null" -> <<"n", "u", "l", "l">>)
        \o <<"}">>

DocValues ==
    {JStr(s) : s \in Texts(DocAlphabet, MaxDocLen)} \cup {JInt(5), JInt(0), JNull}

DocKeys == {"card_last_4", "transactions"}

Docs == {DocText(k, v) : k \in DocKeys, v \in DocValues} \cup {<<"{", "}">>}

Wrappings == {"bare", "json", "plain", "prose", "both"}

\* a document as the model may send it
Wrap(w, doc) ==
    CASE w = "bare" -> doc
      [] w = "json" -> JsonFence \o <<"\n">> \o doc \o <<"\n">> \o Fence
      [] w = "plain" -> Fence \o <<"\n">> \o doc \o <<"\n">> \o Fence \o <<"\n">>
      [] w = "prose" -> <<"o", "k", ":", "\n">> \o JsonFence \o doc \o Fence \o <<" ", "o", "k">>
      [] w = "both" -> Fence \o <<"x">> \o Fence \o <<"\n">> \o JsonFence \o <<"\n">> \o doc
                           \o <<"\n">> \o Fence

Responses ==
    {Wrap(w, doc) : w \in Wrappings, doc \in Docs}
        \cup {<<>>, <<"s", "o", "r", "r", "y">>, <<"{", "\"", "c", "a", "r", "d", "_", "l", "a", "s", "t", "_", "4", "\"", ":">>, JsonFence \o Fence}

----------------------------------------------------------------------------
(* process_statement: one upload, stage by stage.  An exception of a stage *)
(* ends in the except clause: one st.error, and nothing else is shown.     *)

NoText == <<"<none>">>
NoData == [t |-> "none"]
NoResult == [raised |-> FALSE, none |-> TRUE]

ErrPdf == "Error reading PDF"
ErrModel == "AI parsing error"
ErrJson == "Could not parse AI response"
ErrValidate == "TypeError"

\* extractor.extract_from_pdf(uploaded_file)
ExtractStep ==
    /\ pc = "start"
    /\ stages' = Append(stages, "extract")
    /\ IF pdf_ok
       THEN pc' = "extracted" /\ UNCHANGED errors_shown
       ELSE pc' = "error" /\ errors_shown' = Append(errors_shown, ErrPdf)
    /\ UNCHANGED <<pdf_ok, response_text, parsed_data, result, model_calls, displayed>>

\* parser.parse_statement: self.model.generate_content(prompt), which
\* gives the reply's text or raises
ModelCallStep ==
    /\ pc = "extracted"
    /\ stages' = Append(stages, "model")
    /\ model_calls' = model_calls + 1
    /\ \/ /\ pc' = "error"
          /\ errors_shown' = Append(errors_shown, ErrModel)
          /\ UNCHANGED response_text
       \/ /\ \E r \in Responses : response_text' = r
          /\ pc' = "responded"
          /\ UNCHANGED errors_shown
    /\ UNCHANGED <<pdf_ok, parsed_data, result, displayed>>

\* ParseStep going on with an empty object when the reply is no JSON
ParseStepLenient ==
    /\ pc = "responded"
    /\ stages' = Append(stages, "parse")
    /\ LET r == JsonLoads(StripFence(response_text))
       IN  IF r.ok
           THEN /\ parsed_data' = r.obj
                /\ UNCHANGED errors_shown
           ELSE /\ parsed_data' = EmptyDict
                /\ errors_shown' = Append(errors_shown, ErrJson)
    /\ pc' = "parsed"
    /\ UNCHANGED <<pdf_ok, response_text, result, model_calls, displayed>>

\* parser.parse_statement: the reply cleaned of its fence and json.loads
ParseStep ==
    /\ pc = "responded"
    /\ stages' = Append(stages, "parse")
    /\ LET r == JsonLoads(StripFence(response_text))
       IN  IF r.ok
           THEN /\ parsed_data' = r.obj
                /\ pc' = "parsed"
                /\ UNCHANGED errors_shown
           ELSE /\ pc' = "error"
                /\ errors_shown' = Append(errors_shown, ErrJson)
                /\ UNCHANGED parsed_data
    /\ UNCHANGED <<pdf_ok, response_text, result, model_calls, displayed>>

\* validator.validate(parsed_data)
ValidateStep ==
    /\ pc = "parsed"
    /\ result' = Validate(parsed_data)
    /\ stages' = Append(stages, "validate")
    /\ IF Validate(parsed_data).raised
       THEN /\ pc' = "error"
            /\ errors_shown' = Append(errors_shown, ErrValidate)
       ELSE /\ pc' = "validated"
            /\ UNCHANGED errors_shown
    /\ UNCHANGED <<pdf_ok, response_text, parsed_data, model_calls, displayed>>

\* display_results(result, extracted_data) is called; what it renders is
\* not modelled
DisplayStep ==
    /\ pc = "validated"
    /\ displayed' = TRUE
    /\ stages' = Append(stages, "display")
    /\ pc' = "done"
    /\ UNCHANGED <<pdf_ok, response_text, parsed_data, result, model_calls, errors_shown>>

\* an upload, of a file that pdfplumber can read or not
Init ==
    /\ pc = "start"
    /\ pdf_ok \in BOOLEAN
    /\ response_text = NoText
    /\ parsed_data = NoData
    /\ result = NoResult
    /\ model_calls = 0
    /\ errors_shown = <<>>
    /\ stages = <<>>
    /\ displayed = FALSE

Next == ExtractStep \/ ModelCallStep \/ ParseStep \/ ValidateStep \/ DisplayStep

Spec == Init /\ [][Next]_vars

\* validate and display, from every checked object the parse can return;
\* the reply itself is not part of this specification
InitValidate ==
    /\ pc = "parsed"
    /\ pdf_ok = TRUE
    /\ response_text = NoText
    /\ parsed_data \in ValidateInputs
    /\ result = NoResult
    /\ model_calls = 1
    /\ errors_shown = <<>>
    /\ stages = <<"extract", "model", "parse">>
    /\ displayed = FALSE

NextValidate == ValidateStep \/ DisplayStep

SpecValidate == InitValidate /\ [][NextValidate]_vars

----------------------------------------------------------------------------
(* Properties of validate.  `parsed_data` is the input of the call and     *)
(* `result` what it gave, once pc has left "parsed".                       *)

Validated == pc \in {"validated", "done"}
ValidateCalled == pc \in {"validated", "done"} \/ (pc = "error" /\ result # NoResult)

AmountFieldSet == {amount_fields[i] : i \in DOMAIN amount_fields}
DateFieldSet == {date_fields[i] : i \in DOMAIN date_fields}

InputTxns ==
    IF Get(parsed_data, "transactions").t = "list"
    THEN parsed_data["transactions"].xs ELSE <<>>

\* a text with something left after cleaning that is not a number
Unconvertible(v) ==
    /\ v.t = "str"
    /\ CleanAmountText(v.s) # <<>>
    /\ ParseFloat(CleanAmountText(v.s)) = JNull

OutputTxns ==
    IF Get(result.data, "transactions").t = "list"
    THEN result.data["transactions"].xs ELSE <<>>

\* C1: a monetary field, or a kept transaction's amount, whose value is an
\* unconvertible string is null in the normalized output, and validate
\* does not raise on it.
C1_GarbageAmountIsNull ==
    ValidateCalled =>
        /\ \A f \in AmountFieldSet :
               (f \in DOMAIN parsed_data /\ Unconvertible(parsed_data[f])) =>
                   /\ ~result.raised
                   /\ Get(result.data, f) = JNull
        /\ ~result.raised =>
               \A k \in DOMAIN OutputTxns :
                   ~Unconvertible(Get(OutputTxns[k].d, "amount"))

InWarnings(w) == \E i \in DOMAIN result.warnings : result.warnings[i] = w

\* the claimed rule for a value v: four digits left replace it without a
\* warning, any other count keeps it and records the warning
CardRule(v) ==
    LET digits == SelectSeq(PyStr(v), IsDigit)
    IN  IF Len(digits) = 4
        THEN result.data["card_last_4"] = JStr(digits) /\ ~InWarnings(WarnCard)
        ELSE result.data["card_last_4"] = v /\ InWarnings(WarnCard)

\* C2 as stated: every non-null card_last_4 with exactly 4 digits left is
\* replaced by those digits without a warning; every other non-null value
\* (an empty string included) is kept and the card-suffix warning is
\* recorded.
C2_CardSuffixEveryNonNull ==
    (Validated /\ Get(parsed_data, "card_last_4") # JNull) =>
        CardRule(parsed_data["card_last_4"])

\* a value Python takes for false: null, the empty string, zero
EmptyValue(v) == v = JStr(<<>>) \/ v = JInt(0) \/ v = JBool(FALSE) \/ v = JNull

\* C2, amended: the rule holds for every non-empty card_last_4 (a non-empty
\* string, a non-zero number); an empty string or a zero is treated like a
\* missing value: it is kept and no card-suffix warning is recorded.
C2_CardSuffix ==
    (Validated /\ "card_last_4" \in DOMAIN parsed_data) =>
        IF EmptyValue(parsed_data["card_last_4"])
        THEN result.data["card_last_4"] = parsed_data["card_last_4"] /\ ~InWarnings(WarnCard)
        ELSE CardRule(parsed_data["card_last_4"])

\* a suffix given with separators has been reduced to its four digits
C2_Witness ==
    /\ Validated
    /\ Get(parsed_data, "card_last_4") = JStr(<<"4", "5", "-", "4", "5">>)
    /\ Get(result.data, "card_last_4") = JStr(<<"4", "5", "4", "5">>)
    /\ ~InWarnings(WarnCard)

\* missing, read widely: absent, null or the empty string
Missing(v) == v = JNull \/ v = JStr(<<>>)

\* C3: the total-balance warning is recorded exactly when total_balance is
\* missing, and the issuer warning exactly when card_issuer is; a balance
\* that is a number (zero included) or a non-empty string gets no warning.
C3_WarningsIffMissing ==
    Validated =>
        /\ InWarnings(WarnBalance) <=> Missing(Get(parsed_data, "total_balance"))
        /\ InWarnings(WarnIssuer) <=> Missing(Get(parsed_data, "card_issuer"))

\* C4: validate returns normally on every raw object, with is_valid true
\* and no errors.
C4_NoHardFailure ==
    ValidateCalled =>
        /\ ~result.raised
        /\ result.is_valid = TRUE
        /\ result.errors = <<>>

\* the input entries that have a non-empty description, by position
HasDescription(e) ==
    /\ e.t = "dict"
    /\ "description" \in DOMAIN e.d
    /\ e.d["description"].t = "str"
    /\ e.d["description"].s # <<>>

KeptPositions == {i \in DOMAIN InputTxns : HasDescription(InputTxns[i])}

\* the position in the input of the k-th entry with a description
KeptAt(k) ==
    CHOOSE i \in KeptPositions : Cardinality({j \in KeptPositions : j <= i}) = k

\* what the top-level rule makes of a monetary value
TopLevelAmount(v) ==
    Validate(Put(EmptyDict, "total_balance", v)).data["total_balance"]

\* C5: for a transactions list, the output is the input entries with a
\* non-empty description, each once, in their order, and a kept entry's
\* amount is what the top-level monetary rule makes of it.
C5_TransactionsFiltered ==
    (Validated /\ Get(parsed_data, "transactions").t = "list") =>
        /\ Get(result.data, "transactions").t = "list"
        /\ Len(OutputTxns) = Cardinality(KeptPositions)
        /\ \A k \in DOMAIN OutputTxns :
               LET src == InputTxns[KeptAt(k)].d
                   out == OutputTxns[k].d
               IN  /\ out["description"] = src["description"]
                   /\ ("amount" \in DOMAIN out) = ("amount" \in DOMAIN src)
                   /\ "amount" \in DOMAIN src =>
                          out["amount"] = TopLevelAmount(src["amount"])

\* an entry without description dropped between two kept ones, and an
\* amount in parentheses made negative
C5_Witness ==
    /\ Validated
    /\ Len(InputTxns) = 2
    /\ ~HasDescription(InputTxns[1])
    /\ HasDescription(InputTxns[2])
    /\ Len(OutputTxns) = 1
    /\ Get(OutputTxns[1].d, "description") = JStr(<<"B">>)
    /\ Get(InputTxns[2].d, "amount") = JStr(<<"(", "2", ")">>)
    /\ Get(OutputTxns[1].d, "amount") = JFloat(-2, 0)

\* the order in which the claim lists the seven formats
ClaimedOrder ==
    <<<<"Y", "-", "m", "-", "d">>, <<"m", "/", "d", "/", "Y">>,
      <<"d", "/", "m", "/", "Y">>, <<"m", "-", "d", "-", "Y">>,
      <<"B", "ws", "d", ",", "ws", "Y">>, <<"b", "ws", "d", ",", "ws", "Y">>,
      <<"Y", "/", "m", "/", "d">>>>

ParsesAs(text, i) == Strptime(Strip(text), ClaimedOrder[i]).ok

\* the date the first format of the claimed order that parses gives
FirstParse(text) ==
    LET i == CHOOSE i \in DOMAIN ClaimedOrder :
                 /\ ParsesAs(text, i)
                 /\ \A j \in 1..(i - 1) : ~ParsesAs(text, j)
    IN  Strptime(Strip(text), ClaimedOrder[i])

IsoText(dt) ==
    PadLeft(NatToStr(dt.Y), 4) \o <<"-">> \o PadLeft(NatToStr(dt.m), 2)
        \o <<"-">> \o PadLeft(NatToStr(dt.d), 2)

\* a value that is not a text and is not empty (a non-zero number, true)
NonTextValue(v) == (v.t = "int" /\ v.n # 0) \/ (v.t = "bool" /\ v.b)

\* the result for a date value, the text of the value v being `text`, and
\* `unmatched` what is claimed for a value no format parses
DateRule(out, text, unmatched) ==
    IF \E i \in DOMAIN ClaimedOrder : ParsesAs(text, i)
    THEN out = JStr(IsoText(FirstParse(text)))
    ELSE out = unmatched

\* C6 as stated: each date field holds the date of the first of the seven
\* formats, in the listed order, that parses the value, as YYYY-MM-DD; a
\* value no format parses is in the output unchanged.
C6_DateEveryValue ==
    Validated =>
        \A f \in DateFieldSet :
            (f \in DOMAIN parsed_data /\ parsed_data[f] # JNull) =>
                DateRule(result.data[f], PyStr(parsed_data[f]), parsed_data[f])

\* C6, amended: the same for a string value; a non-empty value that is not
\* a string (a number) and that no format parses is in the output as its
\* text, str(value), not unchanged.
C6_DateNormalized ==
    Validated =>
        \A f \in DateFieldSet :
            (f \in DOMAIN parsed_data /\ parsed_data[f] # JNull) =>
                LET v == parsed_data[f]
                IN  /\ DateRule(result.data[f], PyStr(v),
                                IF NonTextValue(v) THEN JStr(PyStr(v)) ELSE v)
                    /\ v = JStr(<<"0", "2", "/", "1", "2", "/", "2", "0", "2", "4">>) => result.data[f] = JStr(<<"2", "0", "2", "4", "-", "0", "2", "-", "1", "2">>)
                    /\ v = JStr(<<"1", "3", "/", "0", "2", "/", "2", "0", "2", "4">>) => result.data[f] = JStr(<<"2", "0", "2", "4", "-", "0", "2", "-", "1", "3">>)
                    /\ v = JStr(<<"s", "o", "m", "e", "t", "i", "m", "e", " ", "i", "n", " ", "M", "a", "r", "c", "h">>) => result.data[f] = v

\* a slash date valid month-first and day-first has been read month-first
C6_Witness ==
    /\ Validated
    /\ Get(parsed_data, "billing_cycle_end") = JStr(<<"0", "2", "/", "1", "2", "/", "2", "0", "2", "4">>)
    /\ Get(result.data, "billing_cycle_end") = JStr(<<"2", "0", "2", "4", "-", "0", "2", "-", "1", "2">>)

\* the amount text after cleaning is wrapped in parentheses
Wrapped(c) == Len(c) >= 2 /\ c[1] = "(" /\ c[Len(c)] = ")"

\* what the claim makes of an amount text
ClaimedAmount(s) ==
    LET c == SelectSeq(s, LAMBDA ch : ch \notin {"$", ",", " ", "\t", "\n"})
    IN  IF Wrapped(c)
        THEN ParseFloat(<<"-">> \o SelectSeq(c, LAMBDA ch : ch \notin {"(", ")"}))
        ELSE ParseFloat(c)

\* C7: a numeric monetary value is kept; a string that converts under the
\* claimed rule ("$", commas and whitespace removed, a value wrapped in
\* parentheses negated) becomes that number, and a string that is not
\* wrapped in parentheses is never negated for its parentheses.
C7_AmountNormalized ==
    Validated =>
        \A f \in AmountFieldSet :
            (f \in DOMAIN parsed_data) =>
                LET v == parsed_data[f]
                    out == result.data[f]
                IN  /\ v.t = "int" => out = JFloat(v.n, 0)
                    /\ v.t = "float" => out = v
                    /\ (v.t = "str" /\ ClaimedAmount(v.s) # JNull) =>
                           out = ClaimedAmount(v.s)
                    /\ (v.t = "str" /\ ClaimedAmount(v.s) = JNull) =>
                           out.t # "float"

\* C10: the output has exactly the keys of the input, every kept
\* transaction has the keys of its input entry with the values other than
\* the amount unchanged, and only the entries without description are gone.
C10_FieldsPreserved ==
    Validated =>
        /\ DOMAIN result.data = DOMAIN parsed_data
        /\ \A f \in DOMAIN parsed_data :
               f \notin (AmountFieldSet \cup DateFieldSet \cup {"card_last_4", "transactions"})
                   => result.data[f] = parsed_data[f]
        /\ Get(parsed_data, "transactions").t = "list" =>
               /\ Len(OutputTxns) = Cardinality(KeptPositions)
               /\ \A k \in DOMAIN OutputTxns :
                      LET src == InputTxns[KeptAt(k)].d
                          out == OutputTxns[k].d
                      IN  /\ DOMAIN out = DOMAIN src
                          /\ \A x \in DOMAIN src \ {"amount"} : out[x] = src[x]

\* an unconvertible balance is still a field of the output, and of two
\* entries the one with a description is kept with all its fields
C10_Witness ==
    /\ Validated
    /\ Get(parsed_data, "total_balance") = JStr(<<"a", "b", "c">>)
    /\ Get(result.data, "total_balance") = JStr(<<"a", "b", "c">>)
    /\ Len(InputTxns) = 2
    /\ Len(OutputTxns) = 1
    /\ DOMAIN OutputTxns[1].d = {"description", "category"}

\* validate applied to the data that validate gave
Again == Validate(result.data)

\* the value of a field differs between the input and the output
Rewritten(f) == Get(result.data, f) # Get(parsed_data, f)

\* C11: normalization is idempotent on the data: for every input on which
\* validate returns, validate returns on the normalized data too, and the
\* data it gives are the normalized data again.
C11_ValidateIdempotent ==
    Validated =>
        /\ ~Again.raised
        /\ Again.data = result.data

\* a statement whose balance, due date and transaction list the first call
\* rewrote (a text to a float, a US date to an ISO date, one entry of two
\* dropped and the amount of the other converted), and that the second
\* call leaves as it is
C11_Witness ==
    /\ Validated
    /\ Rewritten("total_balance") /\ result.data["total_balance"].t = "float"
    /\ Rewritten("payment_due_date")
    /\ result.data["payment_due_date"] = JStr(<<"2", "0", "2", "4", "-", "0", "3", "-", "1", "5">>)
    /\ result.data["card_last_4"] = JStr(<<"4", "5", "3", "2">>)
    /\ Len(InputTxns) = 2
    /\ Len(OutputTxns) = 1
    /\ OutputTxns[1].d["amount"] = JFloat(-2, 0)
    /\ ~Again.raised
    /\ Again.data = result.data

----------------------------------------------------------------------------
(* Properties of the pipeline.                                             *)

AllStages == <<"extract", "model", "parse", "validate", "display">>

\* the upload failed in extraction, in the model call or in the JSON parse
EarlyFailure ==
    errors_shown # <<>> /\ errors_shown[1] \in {ErrPdf, ErrModel, ErrJson}

\* C8: the stages run in the order extraction, model call and parse,
\* validation, display; after a failure of extraction, of the model call
\* or of the parse, validation and display have not run and never run,
\* nothing of a result exists, one error message is shown; the model is
\* called once at most.
C8_PipelineOrder ==
    /\ Len(stages) <= Len(AllStages)
    /\ \A i \in DOMAIN stages : stages[i] = AllStages[i]
    /\ model_calls <= 1
    /\ displayed => (result # NoResult /\ ~result.raised)
    /\ EarlyFailure =>
           /\ pc = "error"
           /\ Len(errors_shown) = 1
           /\ result = NoResult
           /\ ~displayed
           /\ \A i \in DOMAIN stages : stages[i] \notin {"validate", "display"}

\* a reply that is no JSON has ended the upload after one model call
C8_Witness ==
    /\ pc = "error"
    /\ response_text = <<"s", "o", "r", "r", "y">>
    /\ errors_shown = <<ErrJson>>
    /\ model_calls = 1
    /\ stages = <<"extract", "model", "parse">>
    /\ ~displayed

ParseDone == \E i \in DOMAIN stages : stages[i] = "parse"

\* C9: a reply that is a JSON document, bare, or inside a json fence or a
\* plain fence (a json fence going before a plain one), is parsed to the
\* object the document denotes, also when a string of the document holds
\* three backticks.
C9_FenceUnwrapped ==
    ParseDone =>
        \A k \in DocKeys, v \in DocValues, w \in {"bare", "json", "plain", "both"} :
            response_text = Wrap(w, DocText(k, v)) =>
                /\ pc # "error" \/ errors_shown # <<ErrJson>>
                /\ parsed_data = Put(EmptyDict, k, v)

====
